---- MODULE Spec2Model ----
(***************************************************************************)
(* Room booking: the booking route handlers (POST create, PUT decide,      *)
(* DELETE cancel) of src/app/api/booking/route.ts over the Booking and     *)
(* Room collections, with the rooms route handlers (GET, POST, PUT,        *)
(* DELETE) of src/app/api/management/rooms/route.ts and the cookies that   *)
(* login sets.  Every await on the database is one step of a request;      *)
(* requests of different clients interleave between steps.                 *)
(*                                                                         *)
(* Transactions follow the document store's multi-document transactions:   *)
(* a transaction reads from the snapshot taken at its first operation, its *)
(* writes stay private until commit, and a write to a document that        *)
(* another open transaction has written, or that was changed after the     *)
(* snapshot, fails with a write conflict, which aborts the transaction.    *)
(***************************************************************************)
EXTENDS Integers, Sequences, FiniteSets, TLC

\* ------------------------------------------------------------------ bounds
MaxTime == 2
DayLen == 2
MaxBookings == 2
\* For the runs on the conflict tests.
MaxProbeTime == 3

\* ------------------------------------------------------------------ inputs
Procs == {"p1", "p2"}
Users == {"u1", "u2"}
\* The users who file booking requests; every user may try to cancel.
Requesters == {"u1"}
RoomIds == {"r1", "r2", "r3"}
Times == 0..MaxTime
Roles == {"admin", "staff"}
None == "none"
NoDoc == [none |-> TRUE]
\* One _id more than the bookings of a run: a run of one client may go on to
\* one more create.
MaxOid == MaxBookings + 1
Oids == 1..MaxOid
UserNote == "n"
AdminNotes == {"a"}

\* ------------------------------------------------------------------ dates
\* getFullYear/getMonth/getDate of an instant: its calendar day.
Day(t) == t \div DayLen
\* parsedBookingDate.setHours(0, 0, 0, 0)
StartOfDay(t) == Day(t) * DayLen
\* parsedBookingDate.setHours(23, 59, 59, 999): the last instant of the day.
EndOfDay(t) == Day(t) * DayLen + (DayLen - 1)
sameDate(a, b) == Day(a) = Day(b)

\* ------------------------------------------------------------------ ids
RECURSIVE Digits(_)
Digits(n) == IF n < 10 THEN <<n>> ELSE Digits(n \div 10) \o <<n % 10>>
RECURSIVE padStart(_, _, _)
padStart(s, len, fill) == IF Len(s) >= len THEN s ELSE padStart(<<fill>> \o s, len, fill)
\* The id built from the count itself, without the + 1.
bookingIdOf_count(bookingCount) == padStart(Digits(bookingCount), 5, 0)

\* `BK${String(bookingCount + 1).padStart(5, '0')}`: the digits after "BK".
BookingIdWidth == 5
bookingIdOf(bookingCount) == padStart(Digits(bookingCount + 1), BookingIdWidth, 0)
BookingIds == {bookingIdOf(n) : n \in 0..MaxBookings}

\* ------------------------------------------------------------------ state
VARIABLES
    bookings,   \* Booking collection, committed: _id -> document or NoDoc
    rooms,      \* Room collection, committed: room _id -> document or NoDoc
    nextOid,    \* the next Booking _id
    proc,       \* the request each client has in flight
    hist        \* history: the database before a round of decide and cancel
                \* calls, and the call each client made in the round

vars == <<bookings, rooms, nextOid, proc, hist>>

Idle == [pc |-> "idle", op |-> None, res |-> None, oid |-> 0, bk |-> NoDoc, status |-> None,
         adminNote |-> None, snap |-> NoDoc, snapd |-> FALSE, rdirty |-> FALSE,
         bdirty |-> FALSE, wb |-> FALSE, wr |-> FALSE, cnt |-> 0]

\* A request of handler `op` that has returned `r` to its caller.
Ret(op, r) == [Idle EXCEPT !.pc = "ret", !.op = op, !.res = r]

BookingDocs == {o \in Oids : bookings[o] # NoDoc}
countDocuments == Cardinality(BookingDocs)
\* Booking.findOne({ booking_id }) on the collection bks: the _id of a stored
\* booking, 0 when none.
findOneIn(bks, bookingId) ==
    IF \E o \in Oids : bks[o] # NoDoc /\ bks[o].booking_id = bookingId
    THEN CHOOSE o \in Oids : bks[o] # NoDoc /\ bks[o].booking_id = bookingId
    ELSE 0
findOne(bookingId) == findOneIn(bookings, bookingId)

NoCall == [op |-> None]
NoHist == [phase |-> "setup", base |-> NoDoc, calls |-> [p \in Procs |-> NoCall]]

\* Documents an open transaction of another request has written.
bookingLocked(p, o) == \E q \in Procs \ {p} : proc[q].wb /\ proc[q].oid = o
roomLocked(p, r) == \E q \in Procs \ {p} : proc[q].wr /\ proc[q].bk.room_id = r

Init ==
    /\ bookings = [o \in Oids |-> NoDoc]
    /\ rooms = [r \in RoomIds |->
                  CASE r = "r1" -> [isActive |-> TRUE, schedules |-> <<>>]
                    [] r = "r2" -> [isActive |-> FALSE, schedules |-> <<>>]
                    [] OTHER -> NoDoc]
    /\ nextOid = 1
    /\ proc = [p \in Procs |-> Idle]
    /\ hist = NoHist

\* ------------------------------------------------------------------ POST
\* The time test of POST without its third clause.
POST_hasConflict_twoClauses(schedules, date, s, e) ==
    \E i \in 1..Len(schedules) :
        /\ sameDate(schedules[i].date, date)
        /\ \/ s >= schedules[i].start_time /\ s < schedules[i].end_time
           \/ e > schedules[i].start_time /\ e <= schedules[i].end_time

\* The three-clause time test of POST against the room's schedules.
POST_hasConflict(schedules, date, s, e) ==
    \E i \in 1..Len(schedules) :
        /\ sameDate(schedules[i].date, date)
        /\ \/ s >= schedules[i].start_time /\ s < schedules[i].end_time
           \/ e > schedules[i].start_time /\ e <= schedules[i].end_time
           \/ s <= schedules[i].start_time /\ e >= schedules[i].end_time

\* The query of POST with ACCEPTED bookings only.
bookingConflict_acceptedOnly(room_id, date, s, e) ==
    \E o \in BookingDocs :
        /\ bookings[o].room_id = room_id
        /\ bookings[o].booking_date >= StartOfDay(date)
        /\ bookings[o].booking_date <= EndOfDay(date)
        /\ bookings[o].status = "ACCEPTED"
        /\ \/ bookings[o].start_time >= s /\ bookings[o].start_time < e
           \/ bookings[o].end_time > s /\ bookings[o].end_time <= e
           \/ bookings[o].start_time <= s /\ bookings[o].end_time >= e

\* The query of POST without its status filter.
bookingConflict_anyStatus(room_id, date, s, e) ==
    \E o \in BookingDocs :
        /\ bookings[o].room_id = room_id
        /\ bookings[o].booking_date >= StartOfDay(date)
        /\ bookings[o].booking_date <= EndOfDay(date)
        /\ \/ bookings[o].start_time >= s /\ bookings[o].start_time < e
           \/ bookings[o].end_time > s /\ bookings[o].end_time <= e
           \/ bookings[o].start_time <= s /\ bookings[o].end_time >= e

\* Booking.findOne of POST: a PENDING or ACCEPTED booking of the room on the
\* day whose times meet the candidate's.
bookingConflict(room_id, date, s, e) ==
    \E o \in BookingDocs :
        /\ bookings[o].room_id = room_id
        /\ bookings[o].booking_date >= StartOfDay(date)
        /\ bookings[o].booking_date <= EndOfDay(date)
        /\ bookings[o].status \in {"PENDING", "ACCEPTED"}
        /\ \/ bookings[o].start_time >= s /\ bookings[o].start_time < e
           \/ bookings[o].end_time > s /\ bookings[o].end_time <= e
           \/ bookings[o].start_time <= s /\ bookings[o].end_time >= e

\* POST without the check of the room's isActive flag.
POST_start_anyRoom(p, userId, room_id, booking_date, s, e) ==
    /\ proc[p].pc = "idle"
    /\ LET room == rooms[room_id]
           cand == [booking_id |-> <<>>, user_id |-> userId, room_id |-> room_id,
                    booking_date |-> booking_date, start_time |-> s, end_time |-> e,
                    note |-> <<UserNote>>, status |-> "PENDING"]
       IN proc' = [proc EXCEPT ![p] =
             IF userId = None THEN Ret("POST", "Unauthorized")
             ELSE IF room = NoDoc THEN Ret("POST", "RoomNotFound")
             ELSE IF s >= e THEN Ret("POST", "InvalidInterval")
             ELSE IF POST_hasConflict(room.schedules, booking_date, s, e)
                  THEN Ret("POST", "ScheduleConflict")
             ELSE [Idle EXCEPT !.pc = "p_find", !.op = "POST", !.bk = cand]]
    /\ UNCHANGED <<bookings, rooms, nextOid>>

\* POST without the test of the interval.
POST_start_anyInterval(p, userId, room_id, booking_date, s, e) ==
    /\ proc[p].pc = "idle"
    /\ LET room == rooms[room_id]
           cand == [booking_id |-> <<>>, user_id |-> userId, room_id |-> room_id,
                    booking_date |-> booking_date, start_time |-> s, end_time |-> e,
                    note |-> <<UserNote>>, status |-> "PENDING"]
       IN proc' = [proc EXCEPT ![p] =
             IF userId = None THEN Ret("POST", "Unauthorized")
             ELSE IF room = NoDoc THEN Ret("POST", "RoomNotFound")
             ELSE IF ~room.isActive THEN Ret("POST", "RoomInactive")
             ELSE IF POST_hasConflict(room.schedules, booking_date, s, e)
                  THEN Ret("POST", "ScheduleConflict")
             ELSE [Idle EXCEPT !.pc = "p_find", !.op = "POST", !.bk = cand]]
    /\ UNCHANGED <<bookings, rooms, nextOid>>

\* Cookie check, Room.findById and the checks made on the room read.
POST_start(p, userId, room_id, booking_date, s, e) ==
    /\ proc[p].pc = "idle"
    /\ LET room == rooms[room_id]
           cand == [booking_id |-> <<>>, user_id |-> userId, room_id |-> room_id,
                    booking_date |-> booking_date, start_time |-> s, end_time |-> e,
                    note |-> <<UserNote>>, status |-> "PENDING"]
       IN proc' = [proc EXCEPT ![p] =
             IF userId = None THEN Ret("POST", "Unauthorized")
             ELSE IF room = NoDoc THEN Ret("POST", "RoomNotFound")
             ELSE IF ~room.isActive THEN Ret("POST", "RoomInactive")
             ELSE IF s >= e THEN Ret("POST", "InvalidInterval")
             ELSE IF POST_hasConflict(room.schedules, booking_date, s, e)
                  THEN Ret("POST", "ScheduleConflict")
             ELSE [Idle EXCEPT !.pc = "p_find", !.op = "POST", !.bk = cand]]
    /\ UNCHANGED <<bookings, rooms, nextOid>>

\* Booking.findOne: the check against PENDING and ACCEPTED bookings.
POST_findOne(p) ==
    /\ proc[p].pc = "p_find"
    /\ LET c == proc[p].bk
       IN proc' = [proc EXCEPT ![p] =
            IF bookingConflict(c.room_id, c.booking_date, c.start_time, c.end_time)
            THEN Ret("POST", "PendingConflict")
            ELSE [@ EXCEPT !.pc = "p_count"]]
    /\ UNCHANGED <<bookings, rooms, nextOid>>

\* Booking.countDocuments()
POST_countDocuments(p) ==
    /\ proc[p].pc = "p_count"
    /\ proc' = [proc EXCEPT ![p] = [@ EXCEPT !.pc = "p_create", !.cnt = countDocuments]]
    /\ UNCHANGED <<bookings, rooms, nextOid>>

\* Booking.create: the unique index on booking_id refuses a duplicate; the
\* stored booking_date is the date object after its last setHours.
POST_create(p) ==
    /\ proc[p].pc = "p_create"
    /\ LET id == bookingIdOf(proc[p].cnt)
           dup == findOne(id)
           doc == [proc[p].bk EXCEPT !.booking_id = id,
                                     !.booking_date = EndOfDay(@)]
       IN /\ dup # 0 => ~bookingLocked(p, dup)
          /\ IF dup # 0
             THEN /\ proc' = [proc EXCEPT ![p] = Ret("POST", "Error")]
                  /\ UNCHANGED <<bookings, nextOid>>
             ELSE /\ bookings' = [bookings EXCEPT ![nextOid] = doc]
                  /\ nextOid' = nextOid + 1
                  /\ proc' = [proc EXCEPT ![p] = [Idle EXCEPT !.pc = "p_resp", !.op = "POST", !.oid = nextOid, !.bk = doc]]
    /\ UNCHANGED rooms

\* Booking.findById(...).populate(...) and the 201 response built from it.
POST_populate(p) ==
    /\ proc[p].pc = "p_resp"
    /\ proc' = [proc EXCEPT ![p] =
         IF bookings[proc[p].oid] = NoDoc \/ rooms[proc[p].bk.room_id] = NoDoc
         THEN Ret("POST", "Error") ELSE Ret("POST", "Created")]
    /\ UNCHANGED <<bookings, rooms, nextOid>>

\* ------------------------------------------------------------------ transactions
\* A commit or a plain write by `p` changed booking `o` (0: none) and room
\* `r` (None: none): every other open transaction whose snapshot is older
\* now sees that document as changed since its snapshot.
markDirty(pr, p, o, r) ==
    [q \in Procs |->
        IF q = p \/ ~pr[q].snapd THEN pr[q]
        ELSE [pr[q] EXCEPT
                !.bdirty = @ \/ (o # 0 /\ pr[q].oid = o /\ pr[q].pc = "c_del"),
                !.rdirty = @ \/ (r # None /\ pr[q].bk.room_id = r /\ pr[q].pc = "d_room")]]

\* ------------------------------------------------------------------ PUT
\* PUT without its re-check of the room's schedules.
PUT_hasConflict_skipped(schedules, booking) == FALSE

\* The three-clause time test of PUT against the room's schedules.
PUT_hasConflict(schedules, booking) ==
    \E i \in 1..Len(schedules) :
        /\ sameDate(schedules[i].date, booking.booking_date)
        /\ \/ booking.start_time >= schedules[i].start_time
              /\ booking.start_time < schedules[i].end_time
           \/ booking.end_time > schedules[i].start_time
              /\ booking.end_time <= schedules[i].end_time
           \/ booking.start_time <= schedules[i].start_time
              /\ booking.end_time >= schedules[i].end_time

\* The schedule entry PUT pushes, built from the booking it read.
scheduleOf(booking) ==
    [date |-> booking.booking_date, start_time |-> booking.start_time,
     end_time |-> booking.end_time, user_id |-> booking.user_id,
     note |-> booking.note]

\* The note PUT writes: the admin note appended to the note it read.
noteOf(booking, adminNote) ==
    IF adminNote # None THEN booking.note \o <<adminNote>> ELSE booking.note

\* PUT without the PENDING check: any stored booking is taken on.
PUT_findOne_anyStatus(p, role, bookingId, status, adminNote) ==
    /\ proc[p].pc = "idle"
    /\ LET o == findOne(bookingId)
       IN proc' = [proc EXCEPT ![p] =
            IF role # "admin" THEN Ret("PUT", "Forbidden")
            ELSE IF status \notin {"ACCEPTED", "REJECTED"} THEN Ret("PUT", "BadRequest")
            ELSE IF o = 0 THEN Ret("PUT", "NotFound")
            ELSE [Idle EXCEPT !.pc = "d_upd", !.op = "PUT", !.oid = o, !.bk = bookings[o],
                              !.status = status, !.adminNote = adminNote]]
    /\ UNCHANGED <<bookings, rooms, nextOid>>

\* Role check, Booking.findOne({ booking_id }) and the PENDING check.
PUT_findOne(p, role, bookingId, status, adminNote) ==
    /\ proc[p].pc = "idle"
    /\ LET o == findOne(bookingId)
       IN proc' = [proc EXCEPT ![p] =
            IF role # "admin" THEN Ret("PUT", "Forbidden")
            ELSE IF status \notin {"ACCEPTED", "REJECTED"} THEN Ret("PUT", "BadRequest")
            ELSE IF o = 0 THEN Ret("PUT", "NotFound")
            ELSE IF bookings[o].status # "PENDING" THEN Ret("PUT", "InvalidState")
            ELSE [Idle EXCEPT !.pc = "d_upd", !.op = "PUT", !.oid = o, !.bk = bookings[o],
                              !.status = status, !.adminNote = adminNote]]
    /\ UNCHANGED <<bookings, rooms, nextOid>>

\* PUT that goes on to the room's schedules whatever the decision is.
PUT_findByIdAndUpdate_alwaysSchedules(p) ==
    /\ proc[p].pc = "d_upd"
    /\ LET o == proc[p].oid
       IN proc' = [proc EXCEPT ![p] =
            IF bookings[o] # NoDoc /\ bookingLocked(p, o) THEN Ret("PUT", "Error")
            ELSE [@ EXCEPT !.pc = "d_room",
                           !.wb = (bookings[o] # NoDoc),
                           !.snapd = TRUE,
                           !.snap = rooms[proc[p].bk.room_id]]]
    /\ UNCHANGED <<bookings, rooms, nextOid>>

\* The status write of PUT made outside the transaction: it is stored at
\* once and no abort takes it back.
PUT_findByIdAndUpdate_noSession(p) ==
    /\ proc[p].pc = "d_upd"
    /\ LET o == proc[p].oid
       IN /\ bookings' = IF bookings[o] = NoDoc THEN bookings
                         ELSE [bookings EXCEPT ![o] =
                                 [@ EXCEPT !.status = proc[p].status,
                                           !.note = noteOf(proc[p].bk, proc[p].adminNote)]]
          /\ proc' = [proc EXCEPT ![p] =
               [@ EXCEPT !.pc = IF proc[p].status = "ACCEPTED" THEN "d_room" ELSE "d_commit",
                         !.snapd = TRUE,
                         !.snap = rooms[proc[p].bk.room_id]]]
    /\ UNCHANGED <<rooms, nextOid>>

\* startTransaction and Booking.findByIdAndUpdate(booking._id, {status, note},
\* {session}): the first operation of the transaction, which fixes its
\* snapshot.  No document with that _id: nothing is written, no error.
PUT_findByIdAndUpdate(p) ==
    /\ proc[p].pc = "d_upd"
    /\ LET o == proc[p].oid
       IN proc' = [proc EXCEPT ![p] =
            IF bookings[o] # NoDoc /\ bookingLocked(p, o) THEN Ret("PUT", "Error")
            ELSE [@ EXCEPT !.pc = IF proc[p].status = "ACCEPTED" THEN "d_room" ELSE "d_commit",
                           !.wb = (bookings[o] # NoDoc),
                           !.snapd = TRUE,
                           !.snap = rooms[proc[p].bk.room_id]]]
    /\ UNCHANGED <<bookings, rooms, nextOid>>

\* Room.findById(...).session(session), the conflict re-check and either
\* abortTransaction or the $push of the schedule entry.
PUT_schedules(p) ==
    /\ proc[p].pc = "d_room"
    /\ LET room == proc[p].snap
           r == proc[p].bk.room_id
       IN proc' = [proc EXCEPT ![p] =
            IF room = NoDoc THEN Ret("PUT", "RoomNotFound")
            ELSE IF PUT_hasConflict(room.schedules, proc[p].bk) THEN Ret("PUT", "ScheduleConflict")
            ELSE IF proc[p].rdirty \/ roomLocked(p, r) THEN Ret("PUT", "Error")
            ELSE [@ EXCEPT !.pc = "d_commit", !.wr = TRUE, !.snap = NoDoc]]
    /\ UNCHANGED <<bookings, rooms, nextOid>>

\* A commit of PUT that puts the new entry in front of the ledger.
PUT_commitTransaction_prepends(p) ==
    /\ proc[p].pc = "d_commit"
    /\ LET o == proc[p].oid
           r == proc[p].bk.room_id
           done == [Idle EXCEPT !.pc = "d_resp", !.op = "PUT", !.oid = o, !.bk = proc[p].bk,
                                !.status = proc[p].status]
       IN /\ bookings' = IF proc[p].wb
                         THEN [bookings EXCEPT ![o] =
                                 [@ EXCEPT !.status = proc[p].status,
                                           !.note = noteOf(proc[p].bk, proc[p].adminNote)]]
                         ELSE bookings
          /\ rooms' = IF proc[p].wr
                      THEN [rooms EXCEPT ![r].schedules = <<scheduleOf(proc[p].bk)>> \o @]
                      ELSE rooms
          /\ proc' = markDirty([proc EXCEPT ![p] = done], p,
                               IF proc[p].wb THEN o ELSE 0,
                               IF proc[p].wr THEN r ELSE None)
    /\ UNCHANGED nextOid

\* session.commitTransaction(): the status write and the push become visible
\* together.
PUT_commitTransaction(p) ==
    /\ proc[p].pc = "d_commit"
    /\ LET o == proc[p].oid
           r == proc[p].bk.room_id
           done == [Idle EXCEPT !.pc = "d_resp", !.op = "PUT", !.oid = o, !.bk = proc[p].bk,
                                !.status = proc[p].status]
       IN /\ bookings' = IF proc[p].wb
                         THEN [bookings EXCEPT ![o] =
                                 [@ EXCEPT !.status = proc[p].status,
                                           !.note = noteOf(proc[p].bk, proc[p].adminNote)]]
                         ELSE bookings
          /\ rooms' = IF proc[p].wr
                      THEN [rooms EXCEPT ![r].schedules = Append(@, scheduleOf(proc[p].bk))]
                      ELSE rooms
          /\ proc' = markDirty([proc EXCEPT ![p] = done], p,
                               IF proc[p].wb THEN o ELSE 0,
                               IF proc[p].wr THEN r ELSE None)
    /\ UNCHANGED nextOid

\* Booking.findById(booking._id).populate(...) after the commit and the
\* response built from it; a missing booking or room throws and gives 500.
PUT_populate(p) ==
    /\ proc[p].pc = "d_resp"
    /\ proc' = [proc EXCEPT ![p] =
         IF bookings[proc[p].oid] = NoDoc \/ rooms[proc[p].bk.room_id] = NoDoc
         THEN Ret("PUT", "Error") ELSE Ret("PUT", "OK")]
    /\ UNCHANGED <<bookings, rooms, nextOid>>

\* ------------------------------------------------------------------ DELETE
\* The $pull condition: the four fields of the booking DELETE read.
pullMatches(schedule, booking) ==
    /\ schedule.date = booking.booking_date
    /\ schedule.start_time = booking.start_time
    /\ schedule.end_time = booking.end_time
    /\ schedule.user_id = booking.user_id

\* A removal that empties the ledger.
pull_all(schedules, booking) == <<>>

\* $pull: every element that matches the condition is removed.
RECURSIVE pull(_, _)
pull(schedules, booking) ==
    IF schedules = <<>> THEN <<>>
    ELSE IF pullMatches(Head(schedules), booking) THEN pull(Tail(schedules), booking)
    ELSE <<Head(schedules)>> \o pull(Tail(schedules), booking)

\* DELETE without the owner check.
DELETE_findOne_anyUser(p, role, userId, bookingId) ==
    /\ proc[p].pc = "idle"
    /\ LET o == findOne(bookingId)
       IN proc' = [proc EXCEPT ![p] =
            IF userId = None THEN Ret("DELETE", "Unauthorized")
            ELSE IF o = 0 THEN Ret("DELETE", "NotFound")
            ELSE [Idle EXCEPT !.pc = IF bookings[o].status = "ACCEPTED" THEN "c_pull" ELSE "c_del",
                              !.op = "DELETE", !.oid = o, !.bk = bookings[o]]]
    /\ UNCHANGED <<bookings, rooms, nextOid>>

\* DELETE that answers OK when it finds no booking.
DELETE_findOne_missingOk(p, role, userId, bookingId) ==
    /\ proc[p].pc = "idle"
    /\ LET o == findOne(bookingId)
       IN proc' = [proc EXCEPT ![p] =
            IF userId = None THEN Ret("DELETE", "Unauthorized")
            ELSE IF o = 0 THEN Ret("DELETE", "OK")
            ELSE IF role # "admin" /\ bookings[o].user_id # userId THEN Ret("DELETE", "Forbidden")
            ELSE [Idle EXCEPT !.pc = IF bookings[o].status = "ACCEPTED" THEN "c_pull" ELSE "c_del",
                              !.op = "DELETE", !.oid = o, !.bk = bookings[o]]]
    /\ UNCHANGED <<bookings, rooms, nextOid>>

\* Cookie check ("user_id"), Booking.findOne({ booking_id }) and the owner
\* check.
DELETE_findOne(p, role, userId, bookingId) ==
    /\ proc[p].pc = "idle"
    /\ LET o == findOne(bookingId)
       IN proc' = [proc EXCEPT ![p] =
            IF userId = None THEN Ret("DELETE", "Unauthorized")
            ELSE IF o = 0 THEN Ret("DELETE", "NotFound")
            ELSE IF role # "admin" /\ bookings[o].user_id # userId THEN Ret("DELETE", "Forbidden")
            ELSE [Idle EXCEPT !.pc = IF bookings[o].status = "ACCEPTED" THEN "c_pull" ELSE "c_del",
                              !.op = "DELETE", !.oid = o, !.bk = bookings[o]]]
    /\ UNCHANGED <<bookings, rooms, nextOid>>

\* Room.updateOne({_id}, {$pull: {schedules: {...}}}, {session}), run when the
\* booking read was ACCEPTED.  No room or no matching entry: nothing is
\* written.
DELETE_updateOne(p) ==
    /\ proc[p].pc = "c_pull"
    /\ LET r == proc[p].bk.room_id
           writes == /\ rooms[r] # NoDoc
                     /\ pull(rooms[r].schedules, proc[p].bk) # rooms[r].schedules
       IN proc' = [proc EXCEPT ![p] =
            IF writes /\ roomLocked(p, r) THEN Ret("DELETE", "Error")
            ELSE [@ EXCEPT !.pc = "c_del", !.wr = writes, !.snapd = TRUE]]
    /\ UNCHANGED <<bookings, rooms, nextOid>>

\* Booking.findByIdAndDelete(booking._id, {session}).  No document with that
\* _id in the snapshot: nothing is deleted, no error.
DELETE_findByIdAndDelete(p) ==
    /\ proc[p].pc = "c_del"
    /\ LET o == proc[p].oid
       IN proc' = [proc EXCEPT ![p] =
            IF proc[p].bdirty \/ (bookings[o] # NoDoc /\ bookingLocked(p, o)) THEN Ret("DELETE", "Error")
            ELSE [@ EXCEPT !.pc = "c_commit", !.wb = (bookings[o] # NoDoc),
                           !.snapd = TRUE, !.bdirty = FALSE]]
    /\ UNCHANGED <<bookings, rooms, nextOid>>

\* A commit of DELETE that empties the room's ledger whatever it read.
DELETE_commitTransaction_clearsLedger(p) ==
    /\ proc[p].pc = "c_commit"
    /\ LET o == proc[p].oid
           r == proc[p].bk.room_id
       IN /\ bookings' = IF proc[p].wb THEN [bookings EXCEPT ![o] = NoDoc] ELSE bookings
          /\ rooms' = IF rooms[r] # NoDoc THEN [rooms EXCEPT ![r].schedules = <<>>] ELSE rooms
          /\ proc' = markDirty([proc EXCEPT ![p] = Ret("DELETE", "OK")], p,
                               IF proc[p].wb THEN o ELSE 0, r)
    /\ UNCHANGED nextOid

\* session.commitTransaction() and the response.
DELETE_commitTransaction(p) ==
    /\ proc[p].pc = "c_commit"
    /\ LET o == proc[p].oid
           r == proc[p].bk.room_id
       IN /\ bookings' = IF proc[p].wb THEN [bookings EXCEPT ![o] = NoDoc] ELSE bookings
          /\ rooms' = IF proc[p].wr
                      THEN [rooms EXCEPT ![r].schedules = pull(@, proc[p].bk)]
                      ELSE rooms
          /\ proc' = markDirty([proc EXCEPT ![p] = Ret("DELETE", "OK")], p,
                               IF proc[p].wb THEN o ELSE 0,
                               IF proc[p].wr THEN r ELSE None)
    /\ UNCHANGED nextOid

\* The caller takes the response; the client is free for its next request.
Ack(p) ==
    /\ proc[p].pc = "ret"
    /\ proc' = [proc EXCEPT ![p] = Idle]
    /\ UNCHANGED <<bookings, rooms, nextOid>>

\* The requests a client may send.
Statuses == {"ACCEPTED", "REJECTED", "PENDING"}

\* Fewer than `cap` bookings were created or are being created.
Creating == {q \in Procs : proc[q].pc \in {"p_find", "p_count", "p_create"}}
CanCreate(cap) == nextOid + Cardinality(Creating) <= cap

POST(p) ==
    \/ /\ CanCreate(MaxBookings)
       /\ \E userId \in Requesters \cup {None}, room_id \in RoomIds,
             booking_date \in Times, s \in Times, e \in Times :
               POST_start(p, userId, room_id, booking_date, s, e)
    \/ POST_findOne(p) \/ POST_countDocuments(p) \/ POST_create(p) \/ POST_populate(p)

PUT(p) ==
    \/ \E role \in Roles, bookingId \in BookingIds, status \in Statuses,
          adminNote \in AdminNotes :
            PUT_findOne(p, role, bookingId, status, adminNote)
    \/ PUT_findByIdAndUpdate(p) \/ PUT_schedules(p) \/ PUT_commitTransaction(p)
    \/ PUT_populate(p)

DELETE(p) ==
    \/ \E role \in Roles, userId \in Users \cup {None}, bookingId \in BookingIds :
            DELETE_findOne(p, role, userId, bookingId)
    \/ DELETE_updateOne(p) \/ DELETE_findByIdAndDelete(p) \/ DELETE_commitTransaction(p)

Next ==
    /\ \E p \in Procs : POST(p) \/ PUT(p) \/ DELETE(p) \/ Ack(p)
    /\ UNCHANGED hist

Spec == Init /\ [][Next]_vars

\* ------------------------------------------------------------------ rounds
\* PUT by an admin run alone, start to end, on the database db: the database
\* it leaves and the result it returns.
PUT_alone(db, bookingId, status, adminNote) ==
    LET o == findOneIn(db.bookings, bookingId)
    IN IF o = 0 THEN [db |-> db, res |-> "NotFound"]
       ELSE
         LET b == db.bookings[o]
             room == db.rooms[b.room_id]
             upd == [db.bookings EXCEPT ![o] =
                       [@ EXCEPT !.status = status, !.note = noteOf(b, adminNote)]]
         IN IF b.status # "PENDING" THEN [db |-> db, res |-> "InvalidState"]
            ELSE IF status # "ACCEPTED"
                 THEN [db |-> [bookings |-> upd, rooms |-> db.rooms],
                       res |-> IF room = NoDoc THEN "Error" ELSE "OK"]
            ELSE IF room = NoDoc THEN [db |-> db, res |-> "RoomNotFound"]
            ELSE IF PUT_hasConflict(room.schedules, b)
                 THEN [db |-> db, res |-> "ScheduleConflict"]
            ELSE [db |-> [bookings |-> upd,
                          rooms |-> [db.rooms EXCEPT ![b.room_id].schedules =
                                        Append(@, scheduleOf(b))]],
                  res |-> "OK"]

\* DELETE by an admin run alone on the database db.
DELETE_alone(db, bookingId) ==
    LET o == findOneIn(db.bookings, bookingId)
    IN IF o = 0 THEN [db |-> db, res |-> "NotFound"]
       ELSE
         LET b == db.bookings[o]
             room == db.rooms[b.room_id]
         IN [db |-> [bookings |-> [db.bookings EXCEPT ![o] = NoDoc],
                     rooms |-> IF b.status = "ACCEPTED" /\ room # NoDoc
                               THEN [db.rooms EXCEPT ![b.room_id].schedules = pull(@, b)]
                               ELSE db.rooms],
             res |-> "OK"]

\* The bookings are filed, by clients running freely; then, from a moment
\* when no request is in flight, each admin client sends one decide or
\* cancel call, and the two calls interleave freely.
StartRound ==
    /\ hist.phase = "setup"
    /\ \A p \in Procs : proc[p].pc = "idle"
    /\ hist' = [phase |-> "round", base |-> [bookings |-> bookings, rooms |-> rooms],
                calls |-> [p \in Procs |-> NoCall]]
    /\ UNCHANGED <<bookings, rooms, nextOid, proc>>

Setup ==
    /\ hist.phase = "setup"
    /\ \E p \in Procs : POST(p) \/ Ack(p)
    /\ UNCHANGED hist

RoundCall(p) ==
    /\ hist.phase = "round"
    /\ hist.calls[p] = NoCall
    /\ \/ \E bookingId \in BookingIds, status \in {"ACCEPTED", "REJECTED"},
             adminNote \in AdminNotes :
            /\ PUT_findOne(p, "admin", bookingId, status, adminNote)
            /\ hist' = [hist EXCEPT !.calls[p] =
                          [op |-> "PUT", bookingId |-> bookingId, status |-> status,
                           adminNote |-> adminNote]]
       \/ \E bookingId \in BookingIds, userId \in Users :
            /\ DELETE_findOne(p, "admin", userId, bookingId)
            /\ hist' = [hist EXCEPT !.calls[p] = [op |-> "DELETE", bookingId |-> bookingId]]

RoundStep(p) ==
    /\ hist.phase = "round"
    /\ \/ PUT_findByIdAndUpdate(p) \/ PUT_schedules(p) \/ PUT_commitTransaction(p)
       \/ PUT_populate(p)
       \/ DELETE_updateOne(p) \/ DELETE_findByIdAndDelete(p) \/ DELETE_commitTransaction(p)
    /\ UNCHANGED hist

NextRound == Setup \/ StartRound \/ \E p \in Procs : RoundCall(p) \/ RoundStep(p)

SpecRound == Init /\ [][NextRound]_vars

\* ------------------------------------------------------------------ one client
\* One client sends its requests one after the other.  The history keeps
\* the database before the last decide(ACCEPTED) call, for as long as the
\* calls after it are a cancel of the same booking and then a create for
\* the booking's room, date and interval.
Client == "p1"

AcceptCall(bookingId, status, adminNote) ==
    [phase |-> "accept", base |-> [bookings |-> bookings, rooms |-> rooms],
     calls |-> [NoHist.calls EXCEPT ![Client] =
                  [op |-> "PUT", bookingId |-> bookingId, status |-> status,
                   adminNote |-> adminNote]]]

\* The booking of the recorded decide call, as it was before the call.
Decided == hist.base.bookings[findOneIn(hist.base.bookings, hist.calls[Client].bookingId)]

SeqCall(cap) ==
    \/ /\ CanCreate(cap)
       /\ \E userId \in Requesters \cup {None}, room_id \in RoomIds,
             booking_date \in Times, s \in Times, e \in Times :
               /\ POST_start(Client, userId, room_id, booking_date, s, e)
               /\ hist' = IF /\ hist.phase = "cancelled" /\ userId # None
                             /\ room_id = Decided.room_id
                             /\ sameDate(booking_date, Decided.booking_date)
                             /\ s = Decided.start_time /\ e = Decided.end_time
                          THEN [hist EXCEPT !.phase = "again"] ELSE NoHist
    \/ \E role \in Roles, bookingId \in BookingIds, status \in Statuses,
          adminNote \in AdminNotes :
            /\ PUT_findOne(Client, role, bookingId, status, adminNote)
            /\ hist' = IF role = "admin" /\ status = "ACCEPTED"
                       THEN AcceptCall(bookingId, status, adminNote) ELSE NoHist
    \/ \E role \in Roles, userId \in Users \cup {None}, bookingId \in BookingIds :
            /\ DELETE_findOne(Client, role, userId, bookingId)
            /\ hist' = IF hist.phase = "accepted" /\ bookingId = hist.calls[Client].bookingId
                       THEN [hist EXCEPT !.phase = "cancel"] ELSE NoHist

SeqStep ==
    /\ \/ POST_findOne(Client) \/ POST_countDocuments(Client) \/ POST_create(Client)
       \/ POST_populate(Client)
       \/ PUT_findByIdAndUpdate(Client) \/ PUT_schedules(Client)
       \/ PUT_commitTransaction(Client) \/ PUT_populate(Client)
       \/ DELETE_updateOne(Client) \/ DELETE_findByIdAndDelete(Client)
       \/ DELETE_commitTransaction(Client)
    /\ UNCHANGED hist

SeqAck ==
    /\ Ack(Client)
    /\ hist' = IF hist.phase = "accept" /\ proc[Client].res = "OK"
               THEN [hist EXCEPT !.phase = "accepted"]
               ELSE IF hist.phase = "cancel" /\ proc[Client].res = "OK"
               THEN [hist EXCEPT !.phase = "cancelled"] ELSE NoHist

NextSeq == SeqCall(MaxBookings) \/ SeqStep \/ SeqAck

SpecSeq == Init /\ [][NextSeq]_vars

\* The same client, with one more create.
NextSeqLong == SeqCall(MaxOid) \/ SeqStep \/ SeqAck

SpecSeqLong == Init /\ [][NextSeqLong]_vars

\* ------------------------------------------------------------------ conflict tests
\* The conflict tests on a wider range of times.  The store holds BK00001,
\* ACCEPTED and on the ledger of r1, and all but one of the other bookings
\* of the run, PENDING, each filed in a race with the bookings before it;
\* one client then books, once with success, and decides.
ProbeTimes == 0..MaxProbeTime
\* A booking_date is sent as a calendar date: the first instant of a day.
ProbeDates == {StartOfDay(t) : t \in Times}
ProbeSlots == {sl \in [date : ProbeDates, start_time : ProbeTimes, end_time : ProbeTimes] :
                 sl.start_time < sl.end_time}
Filed == 1..(MaxBookings - 1)

InitConflict ==
    \E slot \in [Filed -> ProbeSlots] :
        LET filed(o) == [booking_id |-> bookingIdOf(o - 1), user_id |-> "u1", room_id |-> "r1",
                         booking_date |-> EndOfDay(slot[o].date),
                         start_time |-> slot[o].start_time, end_time |-> slot[o].end_time,
                         note |-> <<UserNote>>, status |-> "PENDING"]
            accepted == [filed(1) EXCEPT !.status = "ACCEPTED", !.note = noteOf(filed(1), "a")]
        IN /\ bookings = [o \in Oids |-> IF o = 1 THEN accepted
                                         ELSE IF o \in Filed THEN filed(o) ELSE NoDoc]
           /\ rooms = [r \in RoomIds |->
                         CASE r = "r1" -> [isActive |-> TRUE, schedules |-> <<scheduleOf(filed(1))>>]
                           [] r = "r2" -> [isActive |-> FALSE, schedules |-> <<>>]
                           [] OTHER -> NoDoc]
           /\ nextOid = MaxBookings
           /\ proc = [p \in Procs |-> Idle]
           /\ hist = NoHist

NextConflict ==
    /\ \/ \E userId \in Requesters, sl \in ProbeSlots :
               POST_start(Client, userId, "r1", sl.date, sl.start_time, sl.end_time)
       \/ POST_findOne(Client)
       \/ nextOid <= MaxBookings /\ POST_countDocuments(Client)
       \/ POST_create(Client) \/ POST_populate(Client)
       \/ \E bookingId \in BookingIds, adminNote \in AdminNotes :
               PUT_findOne(Client, "admin", bookingId, "ACCEPTED", adminNote)
       \/ PUT_findByIdAndUpdate(Client) \/ PUT_schedules(Client)
       \/ PUT_commitTransaction(Client) \/ PUT_populate(Client)
       \/ Ack(Client)
    /\ UNCHANGED hist

SpecConflict == InitConflict /\ [][NextConflict]_vars

\* ------------------------------------------------------------------ rooms route
\* The handlers of src/app/api/management/rooms/route.ts that write the Room
\* collection.  None of them runs in a transaction: each await is a step,
\* and a write waits while an open transaction holds the room document.
Manager == "p2"
\* A room gets a new _id when it is created: the requests create rooms at
\* an id no room had, and delete and update the active room of the store.
NewRoomIds == {"r3"}
ManagedRoomIds == {"r1"}
\* The run of the two clients stores all but one of the bookings.
MaxManagedBookings == MaxBookings - 1
\* The schedules of a request body: lists of one well-formed entry.
BodyEntry == [date |-> EndOfDay(0), start_time |-> 0, end_time |-> 1, user_id |-> "u1",
              note |-> <<UserNote>>]
ScheduleBodies == {<<>>, <<BodyEntry>>, <<BodyEntry, BodyEntry>>}

\* ScheduleSchema.pre('validate'): end_time after start_time in every entry.
validSchedules(schedules) ==
    \A i \in 1..Len(schedules) : schedules[i].start_time < schedules[i].end_time

\* rooms POST: role check and Room.findOne({ room_id }).
rooms_POST_findOne(p, role, room_id, schedules) ==
    /\ proc[p].pc = "idle"
    /\ proc' = [proc EXCEPT ![p] =
         IF role # "admin" THEN Ret("rooms.POST", "Forbidden")
         ELSE IF rooms[room_id] # NoDoc THEN Ret("rooms.POST", "RoomIdExists")
         ELSE [Idle EXCEPT !.pc = "rm_create", !.op = "rooms.POST",
                           !.bk = [room_id |-> room_id, schedules |-> schedules]]]
    /\ UNCHANGED <<bookings, rooms, nextOid>>

\* Room.create({..., schedules}): the schedules of the body are stored as the
\* new room's ledger; isActive defaults to true.
rooms_POST_create(p) ==
    /\ proc[p].pc = "rm_create"
    /\ LET r == proc[p].bk.room_id
           body == proc[p].bk.schedules
       IN IF ~validSchedules(body)
          THEN /\ proc' = [proc EXCEPT ![p] = Ret("rooms.POST", "ValidationFailed")]
               /\ UNCHANGED rooms
          ELSE IF rooms[r] # NoDoc
          THEN /\ proc' = [proc EXCEPT ![p] = Ret("rooms.POST", "Error")]
               /\ UNCHANGED rooms
          ELSE /\ rooms' = [rooms EXCEPT ![r] = [isActive |-> TRUE, schedules |-> body]]
               /\ proc' = [proc EXCEPT ![p] = Ret("rooms.POST", "Created")]
    /\ UNCHANGED <<bookings, nextOid>>

\* rooms PUT: role check and Room.findById(id).  The body carries schedules
\* or not; the other fields of the body are left out.
rooms_PUT_findById(p, role, id, hasSchedules, schedules) ==
    /\ proc[p].pc = "idle"
    /\ proc' = [proc EXCEPT ![p] =
         IF role # "admin" THEN Ret("rooms.PUT", "Forbidden")
         ELSE IF rooms[id] = NoDoc THEN Ret("rooms.PUT", "NotFound")
         ELSE [Idle EXCEPT !.pc = "rm_update", !.op = "rooms.PUT",
                           !.bk = [room_id |-> id, hasSchedules |-> hasSchedules,
                                   schedules |-> schedules]]]
    /\ UNCHANGED <<bookings, rooms, nextOid>>

\* if (schedules) updateData.schedules = schedules, then
\* Room.findByIdAndUpdate(id, updateData): the schedules of the body replace
\* the room's ledger.  A room deleted since findById gives null, and the
\* response built from it throws.
rooms_PUT_findByIdAndUpdate(p) ==
    /\ proc[p].pc = "rm_update"
    /\ LET r == proc[p].bk.room_id
       IN /\ ~roomLocked(p, r)
          /\ IF rooms[r] = NoDoc
             THEN /\ proc' = [proc EXCEPT ![p] = Ret("rooms.PUT", "Error")]
                  /\ UNCHANGED rooms
             ELSE /\ rooms' = IF proc[p].bk.hasSchedules
                              THEN [rooms EXCEPT ![r].schedules = proc[p].bk.schedules]
                              ELSE rooms
                  /\ proc' = markDirty([proc EXCEPT ![p] = Ret("rooms.PUT", "OK")], p, 0, r)
    /\ UNCHANGED <<bookings, nextOid>>

\* rooms DELETE: role check, Room.findById(id) and the test of the schedules
\* of the room read.
rooms_DELETE_findById(p, role, id) ==
    /\ proc[p].pc = "idle"
    /\ proc' = [proc EXCEPT ![p] =
         IF role # "admin" THEN Ret("rooms.DELETE", "Forbidden")
         ELSE IF rooms[id] = NoDoc THEN Ret("rooms.DELETE", "NotFound")
         ELSE IF Len(rooms[id].schedules) > 0 THEN Ret("rooms.DELETE", "HasSchedules")
         ELSE [Idle EXCEPT !.pc = "rm_delete", !.op = "rooms.DELETE",
                           !.bk = [room_id |-> id]]]
    /\ UNCHANGED <<bookings, rooms, nextOid>>

\* Room.findByIdAndDelete(id): no condition on the schedules.
rooms_DELETE_findByIdAndDelete(p) ==
    /\ proc[p].pc = "rm_delete"
    /\ LET r == proc[p].bk.room_id
       IN /\ ~roomLocked(p, r)
          /\ rooms' = [rooms EXCEPT ![r] = NoDoc]
          /\ proc' = markDirty([proc EXCEPT ![p] = Ret("rooms.DELETE", "OK")], p, 0, r)
    /\ UNCHANGED <<bookings, nextOid>>

\* The room_id strings of the rooms, as characters; name, location and
\* description are left out of the room documents.
room_idText(r) ==
    CASE r = "r1" -> <<"r", "1">>
      [] r = "r2" -> <<"r", "2">>
      [] OTHER -> <<"r", "3">>
\* The search terms of a request; the empty string stands for no term.
SearchTerms == {<<>>, <<"1">>}
\* { $regex: search }: the term occurs in the text.
regexMatches(text, term) ==
    \E i \in 1..(Len(text) - Len(term) + 1) : SubSeq(text, i, i + Len(term) - 1) = term

\* The two availability clauses of query.$or for availableOn and the two
\* time slots, given as the times of day "HH:MM": no schedules, or no
\* schedule of the date that meets the requested times.
availableClause(room, availableOn, fromSlot, toSlot) ==
    LET dateOnly == StartOfDay(availableOn)
        nextDay == dateOnly + DayLen
        startDateTime == dateOnly + fromSlot
        endDateTime == dateOnly + toSlot
    IN \/ Len(room.schedules) = 0
       \/ ~\E i \in 1..Len(room.schedules) :
            LET sch == room.schedules[i]
            IN /\ sch.date >= dateOnly /\ sch.date < nextDay
               /\ \/ sch.start_time >= startDateTime /\ sch.start_time < endDateTime
                  \/ sch.end_time > startDateTime /\ sch.end_time <= endDateTime
                  \/ sch.start_time <= startDateTime /\ sch.end_time >= endDateTime

\* The query of GET as the handler builds it: isActive is a condition of its
\* own; the clauses of the search term are pushed onto the same $or that
\* holds the availability clauses.
roomsQuery(r, q) ==
    /\ rooms[r] # NoDoc
    /\ q.isActive # None => rooms[r].isActive = (q.isActive = "true")
    /\ \/ availableClause(rooms[r], q.availableOn, q.availableFromTimeSlot,
                          q.availableToTimeSlot)
       \/ q.search # <<>> /\ regexMatches(room_idText(r), q.search)

\* The requests of the booking page: a date, two time slots of the day, and
\* a search term or none.
Queries == {q \in [availableOn : ProbeDates, availableFromTimeSlot : 0..DayLen,
                   availableToTimeSlot : 0..DayLen, search : SearchTerms,
                   isActive : {None, "true"}] :
              q.availableFromTimeSlot < q.availableToTimeSlot}

\* rooms GET: Room.find(query).
rooms_GET_find(p, q) ==
    /\ proc[p].pc = "idle"
    /\ proc' = [proc EXCEPT ![p] =
         [Idle EXCEPT !.pc = "rm_count", !.op = "rooms.GET",
                      !.bk = [rooms |-> {r \in RoomIds : roomsQuery(r, q)}]]]
    /\ UNCHANGED <<bookings, rooms, nextOid>>

\* Room.countDocuments(query) and the response; the count feeds the
\* pagination numbers, which are left out.
rooms_GET_countDocuments(p) ==
    /\ proc[p].pc = "rm_count"
    /\ proc' = [proc EXCEPT ![p] = Ret("rooms.GET", "OK")]
    /\ UNCHANGED <<bookings, rooms, nextOid>>

\* The slots the client books: the intervals of the first day.
RoomSlots == {sl \in [date : {StartOfDay(0)}, start_time : Times, end_time : Times] :
                sl.start_time < sl.end_time}

\* One client books, decides and cancels; a second one manages the rooms.
ClientCall ==
    \/ /\ CanCreate(MaxManagedBookings)
       /\ \E userId \in Requesters, room_id \in RoomIds, sl \in RoomSlots :
            POST_start(Client, userId, room_id, sl.date, sl.start_time, sl.end_time)
    \/ \E bookingId \in BookingIds, status \in {"ACCEPTED", "REJECTED"},
          adminNote \in AdminNotes :
            PUT_findOne(Client, "admin", bookingId, status, adminNote)
    \/ \E role \in Roles, userId \in Requesters, bookingId \in BookingIds :
            DELETE_findOne(Client, role, userId, bookingId)

ManagerStep ==
    \/ \E role \in Roles, room_id \in NewRoomIds, schedules \in ScheduleBodies :
            rooms_POST_findOne(Manager, role, room_id, schedules)
    \/ rooms_POST_create(Manager)
    \/ \E role \in Roles, id \in ManagedRoomIds, hasSchedules \in BOOLEAN,
          schedules \in ScheduleBodies :
            rooms_PUT_findById(Manager, role, id, hasSchedules, schedules)
    \/ rooms_PUT_findByIdAndUpdate(Manager)
    \/ \E role \in Roles, id \in ManagedRoomIds : rooms_DELETE_findById(Manager, role, id)
    \/ rooms_DELETE_findByIdAndDelete(Manager)
    \/ Ack(Manager)

NextRooms ==
    /\ \/ ClientCall \/ SeqStep \/ Ack(Client)
       \/ ManagerStep
    /\ UNCHANGED hist

SpecRooms == Init /\ [][NextRooms]_vars

\* One client books, decides and cancels; a second one deletes rooms.
NextRoomDelete ==
    /\ \/ ClientCall \/ SeqStep \/ Ack(Client)
       \/ \E role \in Roles, id \in ManagedRoomIds : rooms_DELETE_findById(Manager, role, id)
       \/ rooms_DELETE_findByIdAndDelete(Manager)
       \/ Ack(Manager)
    /\ UNCHANGED hist

SpecRoomDelete == Init /\ [][NextRoomDelete]_vars

\* One client books, decides and cancels; a second one lists the rooms.
NextAvail ==
    /\ \/ ClientCall \/ SeqStep \/ Ack(Client)
       \/ \E q \in Queries : rooms_GET_find(Manager, q)
       \/ rooms_GET_countDocuments(Manager)
       \/ Ack(Manager)
    /\ UNCHANGED hist

SpecAvail == Init /\ [][NextAvail]_vars

\* ------------------------------------------------------------------ login
\* The cookies of a browser.  Login sets "role" and "userId"; the booking
\* handlers read "userId" (POST, PUT), "user_id" (DELETE) and "role".
CookieNames == {"role", "userId", "user_id"}
login(user, role) ==
    [c \in CookieNames |-> CASE c = "role" -> role
                             [] c = "userId" -> user
                             [] OTHER -> None]
\* cookieStore.get(name)?.value
cookie(jar, name) == jar[name]
\* The jars of the requests: those login leaves, and those of a caller who
\* has set "user_id" by hand.
LoginJars == {login(u, role) : u \in Users, role \in Roles}
Jars == LoginJars \cup {[jar EXCEPT !["user_id"] = jar["userId"]] : jar \in LoginJars}

\* One client sends its requests with the cookies of its jar.
LoginCall ==
    \/ /\ CanCreate(MaxBookings)
       /\ \E jar \in Jars, room_id \in RoomIds, sl \in RoomSlots :
            POST_start(Client, cookie(jar, "userId"), room_id, sl.date, sl.start_time,
                       sl.end_time)
    \/ \E jar \in Jars, bookingId \in BookingIds, status \in {"ACCEPTED", "REJECTED"},
          adminNote \in AdminNotes :
            PUT_findOne(Client, cookie(jar, "role"), bookingId, status, adminNote)
    \/ \E jar \in Jars, bookingId \in BookingIds :
            DELETE_findOne(Client, cookie(jar, "role"), cookie(jar, "user_id"), bookingId)

NextLogin ==
    /\ LoginCall \/ SeqStep \/ Ack(Client)
    /\ UNCHANGED hist

SpecLogin == Init /\ [][NextLogin]_vars

\* ------------------------------------------------------------------ sessions
\* The session of a decide or cancel call and its transaction, as the driver
\* keeps them: a transaction is open from startTransaction until it is
\* committed or aborted; abortTransaction on a transaction that is not open
\* throws and changes nothing.
NoSession == [state |-> "none", ended |-> FALSE, commits |-> 0, aborts |-> 0]
\* mongoose.startSession(); session.startTransaction()
startTransaction == [NoSession EXCEPT !.state = "open"]
commitTransaction(s) == [s EXCEPT !.state = "committed", !.commits = @ + 1]
abortTransaction(s) ==
    IF s.state = "open" THEN [s EXCEPT !.state = "aborted", !.aborts = @ + 1] ELSE s
endSession(s) == [s EXCEPT !.ended = TRUE]

\* A catch block that ends the session and leaves the transaction alone.
catch_noAbort(s) == endSession(s)

\* catch (error) { await session.abortTransaction(); session.endSession();
\* throw error; }: when abortTransaction throws, endSession is not reached.
catch(s) == IF s.state = "open" THEN endSession(abortTransaction(s)) ELSE s

\* The history of the client's call: its session.
Session == hist.calls[Client]
SessionHist(s) == [phase |-> "session", base |-> NoDoc,
                   calls |-> [NoHist.calls EXCEPT ![Client] = s]]
\* The session after a step of the call that runs in the try block: the
\* step goes on, or it threw and the catch block ran.
Tried(s) == IF proc'[Client].res = "Error" THEN catch(s) ELSE s

TxnCall ==
    /\ ClientCall
    /\ hist' = SessionHist(NoSession)

TxnStep ==
    \/ /\ \/ POST_findOne(Client) \/ POST_countDocuments(Client) \/ POST_create(Client)
          \/ POST_populate(Client)
       /\ UNCHANGED hist
    \/ /\ PUT_findByIdAndUpdate(Client)
       /\ hist' = SessionHist(Tried(startTransaction))
    \/ /\ PUT_schedules(Client)
       /\ hist' = SessionHist(IF proc'[Client].res \in {"RoomNotFound", "ScheduleConflict"}
                              THEN endSession(abortTransaction(Session))
                              ELSE Tried(Session))
    \/ /\ PUT_commitTransaction(Client)
       /\ hist' = SessionHist(endSession(commitTransaction(Session)))
    \/ /\ PUT_populate(Client)
       /\ hist' = SessionHist(Tried(Session))
    \/ /\ DELETE_updateOne(Client)
       /\ hist' = SessionHist(Tried(startTransaction))
    \/ /\ DELETE_findByIdAndDelete(Client)
       /\ hist' = SessionHist(Tried(IF Session.state = "none" THEN startTransaction
                                    ELSE Session))
    \/ /\ DELETE_commitTransaction(Client)
       /\ hist' = SessionHist(endSession(commitTransaction(Session)))

NextTxn ==
    \/ TxnCall
    \/ TxnStep
    \/ Ack(Client) /\ UNCHANGED hist
    \/ ManagerStep /\ UNCHANGED hist

SpecTxn == Init /\ [][NextTxn]_vars

\* ------------------------------------------------------------------ properties
Ledger(r) == IF rooms[r] = NoDoc THEN <<>> ELSE rooms[r].schedules

\* start_a < end_b and start_b < end_a, on one calendar date.
Overlaps(a, b) ==
    /\ sameDate(a.date, b.date)
    /\ a.start_time < b.end_time
    /\ b.start_time < a.end_time

\* The ledger entries of room r that carry booking b's date, start, end and
\* requester.
EntriesOf(r, b) ==
    {i \in 1..Len(Ledger(r)) :
        /\ Ledger(r)[i].date = b.booking_date
        /\ Ledger(r)[i].start_time = b.start_time
        /\ Ledger(r)[i].end_time = b.end_time
        /\ Ledger(r)[i].user_id = b.user_id}

\* C1: no two distinct entries of one room's schedule ledger lie on the same
\* calendar date with overlapping time ranges.
C1_LedgerNoOverlap ==
    \A r \in RoomIds : \A i, j \in 1..Len(Ledger(r)) :
        i # j => ~Overlaps(Ledger(r)[i], Ledger(r)[j])

\* C1 witness: a ledger holds two entries of the same date, back to back.
C1_Witness ==
    \E r \in RoomIds : \E i, j \in 1..Len(Ledger(r)) :
        /\ i # j
        /\ sameDate(Ledger(r)[i].date, Ledger(r)[j].date)
        /\ Ledger(r)[i].end_time = Ledger(r)[j].start_time

\* C2: every entry of a room's ledger is backed by a stored ACCEPTED booking
\* of that room with the entry's date, start, end and requester.
C2_EntryBacked ==
    \A r \in RoomIds : \A i \in 1..Len(Ledger(r)) :
        \E o \in BookingDocs :
            /\ bookings[o].status = "ACCEPTED"
            /\ bookings[o].room_id = r
            /\ i \in EntriesOf(r, bookings[o])

\* C3: every stored ACCEPTED booking has exactly one entry in its room's
\* ledger with its date, start, end and requester.
C3_AcceptedHasEntry ==
    \A o \in BookingDocs :
        bookings[o].status = "ACCEPTED" =>
            Cardinality(EntriesOf(bookings[o].room_id, bookings[o])) = 1

\* C5: a booking stored as ACCEPTED or REJECTED keeps that status for as long
\* as it is stored.
C5_DecidedOnce ==
    [][\A o \in Oids :
          (bookings[o] # NoDoc /\ bookings[o].status # "PENDING" /\ bookings'[o] # NoDoc)
              => bookings'[o].status = bookings[o].status]_vars

\* C10: no two stored PENDING or ACCEPTED bookings of one room and date have
\* overlapping intervals.
C10_NoOverlappingRequests ==
    \A o1, o2 \in BookingDocs :
        (/\ o1 # o2
         /\ bookings[o1].status \in {"PENDING", "ACCEPTED"}
         /\ bookings[o2].status \in {"PENDING", "ACCEPTED"}
         /\ bookings[o1].room_id = bookings[o2].room_id
         /\ sameDate(bookings[o1].booking_date, bookings[o2].booking_date))
        => ~(/\ bookings[o1].start_time < bookings[o2].end_time
             /\ bookings[o2].start_time < bookings[o1].end_time)

\* C7: a decide(ACCEPTED) that finds a conflict on the ledger returns
\* ScheduleConflict and leaves the booking stored as PENDING with the note it
\* had, and the bookings and ledgers as they were.
C7_ConflictLeavesPending ==
    [][\A p \in Procs :
          (PUT_schedules(p) /\ proc'[p].res = "ScheduleConflict")
              => /\ bookings' = bookings
                 /\ rooms' = rooms
                 /\ bookings'[proc[p].oid] # NoDoc
                 /\ bookings'[proc[p].oid].status = "PENDING"
                 /\ bookings'[proc[p].oid].note = proc[p].bk.note]_vars

\* C8: decide by an admin on an unknown booking id returns NotFound, on a
\* booking stored as ACCEPTED or REJECTED returns InvalidState, and either
\* way no booking and no ledger changes.
C8_DecideRefused ==
    [][\A p \in Procs, bookingId \in BookingIds, adminNote \in AdminNotes :
        \A status \in {"ACCEPTED", "REJECTED"} :
          PUT_findOne(p, "admin", bookingId, status, adminNote)
              => /\ bookings' = bookings /\ rooms' = rooms
                 /\ findOne(bookingId) = 0 => proc'[p] = Ret("PUT", "NotFound")
                 /\ (findOne(bookingId) # 0
                       /\ bookings[findOne(bookingId)].status \in {"ACCEPTED", "REJECTED"})
                      => proc'[p] = Ret("PUT", "InvalidState")]_vars

\* C8 witness: one decide has returned NotFound and another InvalidState.
C8_Witness ==
    \E p, q \in Procs :
        /\ proc[p] = Ret("PUT", "NotFound")
        /\ proc[q] = Ret("PUT", "InvalidState")

\* C9: every step of a decide(REJECTED) leaves all ledgers as they were, and
\* its commit stores REJECTED in the booking and changes no other booking.
C9_RejectFrame ==
    [][\A p \in Procs :
          (/\ proc[p].op = "PUT" /\ proc[p].status = "REJECTED"
           /\ \/ PUT_findByIdAndUpdate(p) \/ PUT_schedules(p)
              \/ PUT_commitTransaction(p) \/ PUT_populate(p))
              => /\ rooms' = rooms
                 /\ proc[p].pc # "d_commit" => bookings' = bookings
                 /\ (proc[p].pc = "d_commit" /\ bookings[proc[p].oid] # NoDoc)
                      => /\ bookings'[proc[p].oid].status = "REJECTED"
                         /\ \A o \in Oids \ {proc[p].oid} : bookings'[o] = bookings[o]]_vars

\* C9 witness: a decide(REJECTED) has committed, its booking is stored as
\* REJECTED, and the room's ledger holds an entry of another booking.
C9_Witness ==
    \E p \in Procs :
        /\ proc[p].pc = "d_resp" /\ proc[p].status = "REJECTED"
        /\ bookings[proc[p].oid] # NoDoc
        /\ bookings[proc[p].oid].status = "REJECTED"
        /\ Ledger(proc[p].bk.room_id) # <<>>

\* The calls of the round, and the round over: every client has called and
\* has its response.
Called == {p \in Procs : hist.calls[p] # NoCall}
RoundOver == hist.phase = "round" /\ Called = Procs /\ \A p \in Procs : proc[p].pc = "ret"
CallAlone(db, c) ==
    IF c.op = "PUT" THEN PUT_alone(db, c.bookingId, c.status, c.adminNote)
    ELSE DELETE_alone(db, c.bookingId)

\* A call that ran with no other call in flight did what the handler run
\* alone does.
AloneAgrees ==
    \A p \in Procs :
        (hist.phase = "round" /\ Called = {p} /\ proc[p].pc = "ret")
            => /\ CallAlone(hist.base, hist.calls[p]).res = proc[p].res
               /\ CallAlone(hist.base, hist.calls[p]).db = [bookings |-> bookings, rooms |-> rooms]

\* C4: two decide(ACCEPTED) calls of one round, on two different PENDING
\* bookings of one room and date with overlapping intervals: one returns OK
\* with its booking ACCEPTED and on the ledger, the other returns
\* ScheduleConflict with its booking still PENDING.
C4_OneWinsOtherConflict ==
    \A p, q \in Procs :
        LET op == findOneIn(hist.base.bookings, hist.calls[p].bookingId)
            oq == findOneIn(hist.base.bookings, hist.calls[q].bookingId)
            bp == hist.base.bookings[op]
            bq == hist.base.bookings[oq]
        IN (/\ RoundOver /\ p # q
            /\ hist.calls[p].op = "PUT" /\ hist.calls[p].status = "ACCEPTED"
            /\ hist.calls[q].op = "PUT" /\ hist.calls[q].status = "ACCEPTED"
            /\ op # 0 /\ oq # 0 /\ op # oq
            /\ bp.status = "PENDING" /\ bq.status = "PENDING"
            /\ bp.room_id = bq.room_id
            /\ sameDate(bp.booking_date, bq.booking_date)
            /\ bp.start_time < bq.end_time /\ bq.start_time < bp.end_time)
           => \E w, l \in {p, q} :
                /\ w # l
                /\ proc[w].res = "OK" /\ proc[l].res = "ScheduleConflict"
                /\ LET ow == findOneIn(hist.base.bookings, hist.calls[w].bookingId)
                       ol == findOneIn(hist.base.bookings, hist.calls[l].bookingId)
                   IN /\ bookings[ow].status = "ACCEPTED"
                      /\ EntriesOf(bookings[ow].room_id, bookings[ow]) # {}
                      /\ bookings[ol].status = "PENDING"

\* C6: when the two calls of a round have returned, the stored bookings, the
\* ledgers and the results are those of the calls run alone one after the
\* other, in some order.  A call that ended with the generic error (the
\* store aborted it) is left out of the order, as if it had not run.
Ran == {p \in Procs : proc[p].res # "Error"}
C6_Serializable ==
    RoundOver =>
        \/ /\ Ran = {}
           /\ hist.base = [bookings |-> bookings, rooms |-> rooms]
        \/ \E p \in Procs :
            /\ Ran = {p}
            /\ CallAlone(hist.base, hist.calls[p]).res = proc[p].res
            /\ CallAlone(hist.base, hist.calls[p]).db = [bookings |-> bookings, rooms |-> rooms]
        \/ \E p, q \in Procs :
            /\ p # q /\ Ran = {p, q}
            /\ LET s1 == CallAlone(hist.base, hist.calls[p])
                   s2 == CallAlone(s1.db, hist.calls[q])
               IN /\ s1.res = proc[p].res
                  /\ s2.res = proc[q].res
                  /\ s2.db = [bookings |-> bookings, rooms |-> rooms]

\* A candidate of room r, date d and interval [s, e) overlaps an entry of the
\* ledger of r; it overlaps a stored PENDING or ACCEPTED booking of r.
OverlapsLedger(r, d, s, e) ==
    \E i \in 1..Len(Ledger(r)) :
        Overlaps(Ledger(r)[i], [date |-> d, start_time |-> s, end_time |-> e])
OverlapsBooking(r, d, s, e) ==
    \E o \in BookingDocs :
        /\ bookings[o].status \in {"PENDING", "ACCEPTED"}
        /\ bookings[o].room_id = r
        /\ sameDate(bookings[o].booking_date, d)
        /\ bookings[o].start_time < e
        /\ s < bookings[o].end_time

\* C11: a create for an active room whose candidate overlaps an entry of the
\* room's ledger returns ScheduleConflict (a first step of a create either
\* returns ScheduleConflict and changes nothing, or is the step of no such
\* candidate); a create that passed the ledger
\* and whose candidate overlaps a stored PENDING or ACCEPTED booking of the
\* room and date returns PendingConflict; either way no booking is stored
\* and no ledger changes.
C11_ConflictRefused ==
    [][/\ (proc[Client].pc = "idle" /\ proc'[Client].op = "POST")
          => \/ /\ proc'[Client] = Ret("POST", "ScheduleConflict")
                /\ bookings' = bookings /\ rooms' = rooms
             \/ \A room_id \in RoomIds :
                  (rooms[room_id] # NoDoc /\ rooms[room_id].isActive)
                    => \A sl \in ProbeSlots, userId \in Requesters :
                         ~(/\ OverlapsLedger(room_id, sl.date, sl.start_time, sl.end_time)
                           /\ POST_start(Client, userId, room_id, sl.date, sl.start_time,
                                         sl.end_time))
       /\ (/\ POST_findOne(Client)
           /\ OverlapsBooking(proc[Client].bk.room_id, proc[Client].bk.booking_date,
                              proc[Client].bk.start_time, proc[Client].bk.end_time))
                => /\ proc'[Client] = Ret("POST", "PendingConflict")
                   /\ bookings' = bookings /\ rooms' = rooms]_vars

\* C11 witness: a create was refused with PendingConflict while BK00002 is
\* PENDING and overlaps no entry of the ledger.
C11_Witness ==
    /\ proc[Client] = Ret("POST", "PendingConflict")
    /\ bookings[2] # NoDoc /\ bookings[2].status = "PENDING"
    /\ ~OverlapsLedger(bookings[2].room_id, bookings[2].booking_date,
                       bookings[2].start_time, bookings[2].end_time)

\* C12: for every candidate with start < end, each of the three conflict
\* tests (create against the ledger, decide against the ledger, create
\* against the stored bookings) is true exactly when the candidate and the
\* other interval are on one date with start_a < end_b and start_b < end_a.
C12_ConflictIsOverlap ==
    \A r \in RoomIds :
        rooms[r] # NoDoc =>
            \A sl \in ProbeSlots :
                LET d == sl.date
                    s == sl.start_time
                    e == sl.end_time
                    overlaps == OverlapsLedger(r, d, s, e)
                IN /\ POST_hasConflict(rooms[r].schedules, d, s, e) = overlaps
                   /\ PUT_hasConflict(rooms[r].schedules,
                                      [booking_date |-> d, start_time |-> s, end_time |-> e])
                         = overlaps
                   /\ bookingConflict(r, d, s, e) = OverlapsBooking(r, d, s, e)

\* C12 witness: a create passed both tests with a candidate that starts where
\* an entry of the same date ends, and that entry leaves room on both sides
\* for a candidate that covers it.
C12_Witness ==
    /\ proc[Client].pc = "p_count"
    /\ \E i \in 1..Len(Ledger(proc[Client].bk.room_id)) :
        LET en == Ledger(proc[Client].bk.room_id)[i]
        IN /\ sameDate(en.date, proc[Client].bk.booking_date)
           /\ en.end_time = proc[Client].bk.start_time
           /\ en.start_time > 0
           /\ en.end_time < MaxProbeTime

\* The number a sequence of decimal digits stands for.
RECURSIVE NumberOf(_)
NumberOf(ds) == IF ds = <<>> THEN 0 ELSE 10 * NumberOf(SubSeq(ds, 1, Len(ds) - 1)) + ds[Len(ds)]

\* C13: no two stored bookings have the same booking_id, and the ids grow
\* with every create: as the first id is at least 1 and each later id is
\* strictly greater than those issued before it, the booking stored by the
\* k-th successful create (its _id is k) has an id number of at least k.
C13_IdsUniqueIncreasing ==
    /\ \A o1, o2 \in BookingDocs :
         o1 # o2 => bookings[o1].booking_id # bookings[o2].booking_id
    /\ \A o \in BookingDocs : NumberOf(bookings[o].booking_id) >= o

\* C14: a create that stores a booking while the store holds n bookings
\* gives it the five digits of n + 1, zero-padded (00001 on the empty
\* store), and the status PENDING.
C14_IdFromCount ==
    [][(POST_create(Client) /\ bookings' # bookings)
          => LET n == countDocuments
                 doc == bookings'[nextOid]
             IN /\ Len(doc.booking_id) = 5
                /\ NumberOf(doc.booking_id) = n + 1
                /\ n = 0 => doc.booking_id = <<0, 0, 0, 0, 1>>
                /\ doc.status = "PENDING"]_vars

\* C14 witness: a create on a store of one booking has stored BK00002.
C14_Witness ==
    /\ proc[Client].pc = "p_resp"
    /\ countDocuments = 2
    /\ bookings[proc[Client].oid].booking_id = <<0, 0, 0, 0, 2>>

\* C15: once a decide(ACCEPTED) of a stored booking has returned OK, the
\* ledger of the booking's room holds exactly one entry with the booking's
\* date, start, end and requester; once a cancel of that booking, as the
\* next call, has returned OK, the ledger holds no such entry, every ledger
\* is what it was before the decide, and the booking is gone.
C15_RoundTrip ==
    LET o == findOneIn(hist.base.bookings, hist.calls[Client].bookingId)
        b == Decided
    IN /\ (\/ hist.phase = "accept" /\ proc[Client] = Ret("PUT", "OK")
           \/ hist.phase = "accepted")
             => /\ Cardinality(EntriesOf(b.room_id, b)) = 1
                /\ \A i \in EntriesOf(b.room_id, b) :
                     sameDate(Ledger(b.room_id)[i].date, b.booking_date)
       /\ (hist.phase = "cancel" /\ proc[Client] = Ret("DELETE", "OK"))
             => /\ EntriesOf(b.room_id, b) = {}
                /\ rooms = hist.base.rooms
                /\ bookings[o] = NoDoc

\* C15 witness: the cancel that follows the accept has returned OK and the
\* ledger still holds the entry of another booking.
C15_Witness ==
    /\ hist.phase = "cancel"
    /\ proc[Client] = Ret("DELETE", "OK")
    /\ \E r \in RoomIds : Ledger(r) # <<>>

\* C16: after an accept and a cancel of a booking have both returned OK, a
\* create by a logged-in user for the same room, date and interval, as the
\* next call, returns Created, and a PENDING booking of that slot is stored.
C16_SlotFreeAgain ==
    (hist.phase = "again" /\ proc[Client].pc = "ret")
        => /\ proc[Client].res = "Created"
           /\ \E o \in BookingDocs :
                /\ bookings[o].status = "PENDING"
                /\ bookings[o].room_id = Decided.room_id
                /\ bookings[o].booking_date = Decided.booking_date
                /\ bookings[o].start_time = Decided.start_time
                /\ bookings[o].end_time = Decided.end_time

\* C17: a cancel, by a caller with a user id, of a booking id that no stored
\* booking has (never issued, or deleted by an earlier cancel) returns
\* NotFound and changes no booking and no ledger.
C17_CancelUnknown ==
    [][(proc[Client].pc = "idle" /\ proc'[Client].op = "DELETE")
          => \A bookingId \in BookingIds :
               findOne(bookingId) = 0
                 => \A role \in Roles, userId \in Users :
                      DELETE_findOne(Client, role, userId, bookingId)
                        => /\ proc'[Client] = Ret("DELETE", "NotFound")
                           /\ bookings' = bookings /\ rooms' = rooms]_vars

\* C17 witness: a cancel has returned NotFound after the one booking ever
\* created was deleted by a cancel.
C17_Witness ==
    /\ proc[Client] = Ret("DELETE", "NotFound")
    /\ hist.phase = "setup"
    /\ nextOid = 2 /\ BookingDocs = {}

\* C18: a cancel of a stored booking by a caller who is not an admin and
\* not the booking's requester returns Forbidden, a decide by a caller who
\* is not an admin returns Forbidden, and neither changes a booking or a
\* ledger.
C18_ForbiddenFrame ==
    [][/\ (proc[Client].pc = "idle" /\ proc'[Client].op = "DELETE")
          => \A role \in Roles \ {"admin"}, userId \in Users, bookingId \in BookingIds :
               (/\ findOne(bookingId) # 0
                /\ bookings[findOne(bookingId)].user_id # userId
                /\ DELETE_findOne(Client, role, userId, bookingId))
                  => /\ proc'[Client] = Ret("DELETE", "Forbidden")
                     /\ bookings' = bookings /\ rooms' = rooms
       /\ (proc[Client].pc = "idle" /\ proc'[Client].op = "PUT")
          => \A role \in Roles \ {"admin"}, bookingId \in BookingIds, status \in Statuses,
                adminNote \in AdminNotes :
               PUT_findOne(Client, role, bookingId, status, adminNote)
                  => /\ proc'[Client] = Ret("PUT", "Forbidden")
                     /\ bookings' = bookings /\ rooms' = rooms]_vars

\* C18 witness: a cancel was refused as Forbidden while an ACCEPTED booking
\* is stored with its entry on the ledger.
C18_Witness ==
    /\ proc[Client] = Ret("DELETE", "Forbidden")
    /\ \E o \in BookingDocs :
        /\ bookings[o].status = "ACCEPTED"
        /\ EntriesOf(bookings[o].room_id, bookings[o]) # {}

\* C19: a cancel that read its booking as PENDING or REJECTED changes no
\* ledger in any of its steps; a cancel changes no ledger but that of its
\* booking's room; its commit leaves the booking deleted and the other
\* bookings as they were; and a ledger loses entries only in the commit of
\* a cancel that read its booking as ACCEPTED in that room.
C19_CancelFrame ==
    [][/\ \A p \in Procs :
            (\/ DELETE_updateOne(p) \/ DELETE_findByIdAndDelete(p)
             \/ DELETE_commitTransaction(p))
                => /\ proc[p].bk.status \in {"PENDING", "REJECTED"} => rooms' = rooms
                   /\ \A r \in RoomIds \ {proc[p].bk.room_id} : rooms'[r] = rooms[r]
                   /\ proc[p].pc # "c_commit" => (bookings' = bookings /\ rooms' = rooms)
                   /\ proc[p].pc = "c_commit"
                        => /\ bookings'[proc[p].oid] = NoDoc
                           /\ \A o \in Oids \ {proc[p].oid} : bookings'[o] = bookings[o]
       /\ \A r \in RoomIds :
            Len(Ledger(r)') < Len(Ledger(r))
                => \E p \in Procs :
                     /\ DELETE_commitTransaction(p)
                     /\ proc[p].bk.status = "ACCEPTED"
                     /\ proc[p].bk.room_id = r]_vars

\* C19 witness: a cancel has returned OK, two bookings were created, and
\* the one still stored is ACCEPTED with its entry on the ledger.
C19_Witness ==
    /\ \E p \in Procs : proc[p] = Ret("DELETE", "OK")
    /\ nextOid = 3
    /\ \E o \in Oids :
        /\ BookingDocs = {o}
        /\ bookings[o].status = "ACCEPTED"
        /\ EntriesOf(bookings[o].room_id, bookings[o]) # {}

\* C20: a create by a logged-in user for a room id that no room has returns
\* RoomNotFound, and for a room whose isActive is false RoomInactive,
\* whatever the date and times sent; no booking is stored, the number of
\* bookings stays and no ledger changes.
C20_RoomRefused ==
    [][(proc[Client].pc = "idle" /\ proc'[Client].op = "POST")
          => \A room_id \in RoomIds :
               (rooms[room_id] = NoDoc \/ ~rooms[room_id].isActive)
                 => \A userId \in Requesters, d \in Times, s \in Times, e \in Times :
                      POST_start(Client, userId, room_id, d, s, e)
                        => /\ proc'[Client] = IF rooms[room_id] = NoDoc
                                              THEN Ret("POST", "RoomNotFound")
                                              ELSE Ret("POST", "RoomInactive")
                           /\ bookings' = bookings /\ rooms' = rooms
                           /\ countDocuments' = countDocuments]_vars

\* C20 witness: a create was refused with RoomInactive while bookings of
\* another room are stored.
C20_Witness ==
    /\ proc[Client] = Ret("POST", "RoomInactive")
    /\ BookingDocs # {}

RECURSIVE pullFirst(_, _)
pullFirst(schedules, booking) ==
    IF schedules = <<>> THEN <<>>
    ELSE IF pullMatches(Head(schedules), booking) THEN Tail(schedules)
    ELSE <<Head(schedules)>> \o pullFirst(Tail(schedules), booking)

\* C22: the commit of a cancel returns OK; when its removal found a matching
\* entry, the ledger of the booking's room becomes the ledger without the
\* first entry that equals the booking in date, start, end and requester,
\* one entry shorter and otherwise the same; when it found none, every
\* ledger stays as it was.
C22_CancelRemovesFirst ==
    [][\A p \in Procs :
          DELETE_commitTransaction(p)
            => /\ proc'[p] = Ret("DELETE", "OK")
               /\ ~proc[p].wr => rooms' = rooms
               /\ proc[p].wr
                    => LET r == proc[p].bk.room_id
                       IN /\ rooms'[r].schedules = pullFirst(rooms[r].schedules, proc[p].bk)
                          /\ Len(rooms'[r].schedules) = Len(rooms[r].schedules) - 1
                          /\ \A q \in RoomIds \ {r} : rooms'[q] = rooms[q]]_vars

\* C23: a step changes a room's ledger only as the commit of a
\* decide(ACCEPTED) for that room, which adds exactly one entry at the end,
\* or as the commit of a cancel that read its booking as ACCEPTED in that
\* room, which removes entries; no other step, of the rooms route included,
\* adds, removes or replaces an entry.
C23_LedgerOnlyByCommit ==
    [][\A r \in RoomIds :
          Ledger(r)' # Ledger(r)
            => \/ \E p \in Procs :
                    /\ PUT_commitTransaction(p)
                    /\ proc[p].status = "ACCEPTED" /\ proc[p].bk.room_id = r
                    /\ Len(Ledger(r)') = Len(Ledger(r)) + 1
                    /\ SubSeq(Ledger(r)', 1, Len(Ledger(r))) = Ledger(r)
               \/ \E p \in Procs :
                    /\ DELETE_commitTransaction(p)
                    /\ proc[p].bk.status = "ACCEPTED" /\ proc[p].bk.room_id = r
                    /\ Len(Ledger(r)') < Len(Ledger(r))]_vars

\* C24: a create is refused with PendingConflict only when a stored PENDING
\* or ACCEPTED booking of the room and date overlaps the candidate: a
\* booking stored as REJECTED, or deleted by a cancel, refuses no create.
C24_OnlyOpenBookingsBlock ==
    [][(POST_findOne(Client) /\ proc'[Client] = Ret("POST", "PendingConflict"))
          => OverlapsBooking(proc[Client].bk.room_id, proc[Client].bk.booking_date,
                             proc[Client].bk.start_time, proc[Client].bk.end_time)]_vars

\* C24 witness: a create has passed the query on the stored bookings while a
\* REJECTED booking of its room and date overlaps its interval.
C24_Witness ==
    /\ proc[Client].pc = "p_count"
    /\ \E o \in BookingDocs :
        /\ bookings[o].status = "REJECTED"
        /\ bookings[o].room_id = proc[Client].bk.room_id
        /\ sameDate(bookings[o].booking_date, proc[Client].bk.booking_date)
        /\ bookings[o].start_time < proc[Client].bk.end_time
        /\ proc[Client].bk.start_time < bookings[o].end_time

\* C25: the commit of a decide(ACCEPTED) makes the ledger of the booking's
\* room one entry longer: the entries it held stay, in their order, and the
\* new last entry carries the booking's date, start, end and requester; no
\* other ledger changes.
C25_AcceptAppendsOne ==
    [][\A p \in Procs :
          (PUT_commitTransaction(p) /\ proc[p].status = "ACCEPTED")
            => LET r == proc[p].bk.room_id
                   old == Ledger(r)
                   new == Ledger(r)'
               IN /\ Len(new) = Len(old) + 1
                  /\ SubSeq(new, 1, Len(old)) = old
                  /\ new[Len(new)].date = proc[p].bk.booking_date
                  /\ new[Len(new)].start_time = proc[p].bk.start_time
                  /\ new[Len(new)].end_time = proc[p].bk.end_time
                  /\ new[Len(new)].user_id = proc[p].bk.user_id
                  /\ \A q \in RoomIds \ {r} : rooms'[q] = rooms[q]]_vars

\* C25 witness: a decide(ACCEPTED) has committed on a ledger that held an
\* entry before, and its entry is the last of the two.
C25_Witness ==
    \E p \in Procs :
        /\ proc[p].pc = "d_resp" /\ proc[p].status = "ACCEPTED"
        /\ Len(Ledger(proc[p].bk.room_id)) = 2
        /\ Ledger(proc[p].bk.room_id)[2].start_time = proc[p].bk.start_time
        /\ Ledger(proc[p].bk.room_id)[1].start_time # proc[p].bk.start_time

\* C26: every room that GET returns for a date and two time slots has no
\* entry of that date on its ledger that overlaps the requested interval,
\* with a search term and without, with the isActive filter and without.
C26_AvailableMeansFree ==
    [][(proc[Manager].pc = "idle" /\ proc'[Manager].op = "rooms.GET")
          => \A q \in Queries :
               rooms_GET_find(Manager, q)
                 => \A r \in proc'[Manager].bk.rooms :
                      ~OverlapsLedger(r, q.availableOn,
                                      StartOfDay(q.availableOn) + q.availableFromTimeSlot,
                                      StartOfDay(q.availableOn) + q.availableToTimeSlot)]_vars

\* C27: a cancel sent with the cookies that login left for the requester of
\* a stored booking is not refused: it goes on to the transaction that
\* deletes the booking.
C27_OwnerCanCancel ==
    [][(proc[Client].pc = "idle" /\ proc'[Client].op = "DELETE")
          => \A u \in Users, role \in Roles, bookingId \in BookingIds :
               LET jar == login(u, role)
                   o == findOne(bookingId)
               IN (/\ o # 0
                   /\ bookings[o].user_id = u
                   /\ DELETE_findOne(Client, cookie(jar, "role"), cookie(jar, "user_id"),
                                     bookingId))
                    => proc'[Client].pc \in {"c_pull", "c_del"}]_vars

\* C28: a decide(ACCEPTED) whose transaction finds no room for its booking
\* returns RoomNotFound; the step changes no booking and no ledger, and the
\* booking is stored as PENDING with the note it had.
C28_RoomMissing ==
    [][\A p \in Procs :
          (PUT_schedules(p) /\ proc[p].snap = NoDoc)
            => /\ proc'[p] = Ret("PUT", "RoomNotFound")
               /\ bookings' = bookings /\ rooms' = rooms
               /\ bookings'[proc[p].oid] # NoDoc
               /\ bookings'[proc[p].oid].status = "PENDING"
               /\ bookings'[proc[p].oid].note = proc[p].bk.note]_vars

\* C28 witness: a decide has returned RoomNotFound, its booking is stored as
\* PENDING and the booking's room is gone.
C28_Witness ==
    /\ proc[Client] = Ret("PUT", "RoomNotFound")
    /\ \E o \in BookingDocs :
        /\ bookings[o].status = "PENDING"
        /\ rooms[bookings[o].room_id] = NoDoc

\* C29: every stored ACCEPTED booking references a room that exists.
C29_AcceptedHasRoom ==
    \A o \in BookingDocs :
        bookings[o].status = "ACCEPTED" => rooms[bookings[o].room_id] # NoDoc

====
